---- MODULE Spec2Model ----
(***************************************************************************)
(* Model of ff (jchain/ff): the priority message queue of                  *)
(* src/generic/message.c and the parallel directory walk of src/ff.c.      *)
(*                                                                         *)
(* The queue is a singly linked list of heap nodes.  Nodes live in a small *)
(* heap of addresses so that q->tail, which queue_put never updates and    *)
(* queue_get resets only when the list empties, can be modelled as what it *)
(* is in the program: an address that may designate a node in the middle   *)
(* of the list, a freed node, or a freed address that malloc has handed    *)
(* out again.                                                              *)
(*                                                                         *)
(* Three specifications share the queue operators:                         *)
(*   QSpec  client threads calling queue_put / queue_put_head /            *)
(*          queue_put_tail / queue_get in any order and interleaving;      *)
(*   LSpec  the same calls taken one synchronisation step at a time, with  *)
(*          q->lock explicit;                                              *)
(*   Spec   the program: main() seeding the roots, the workers walking.    *)
(***************************************************************************)
EXTENDS Integers, Sequences, FiniteSets, TLC

(***************************************************************************)
(* Bounds of the model.                                                    *)
(***************************************************************************)
\* number of heap addresses malloc can hand out for queue nodes
NAddr == 4
\* number of queue operations the QSpec clients start in one behaviour
MaxOps == 4
\* number of client threads of QSpec
NClients == 2
\* largest priority a QSpec client passes to queue_put
MaxPrio == 2
\* number of queue operations the LSpec clients call in one behaviour
MaxCalls == 3

NULL == 0
Addr == 1..NAddr
Clients == 1..NClients

\* message.h is not among the sources; the spec (3, 4.2) gives put_tail the
\* lowest and put_head the highest priority of the size_t range.
QUEUE_PRIORITY_MIN == 0
QUEUE_PRIORITY_MAX == 2147483647

VARIABLES
    heap,       \* [Addr -> [alloc, priority, msg, next]]: the struct _node cells
    head,       \* q->head
    tail,       \* q->tail
    length,     \* q->length, the semaphore's value
    fault,      \* the process was killed (SIGSEGV / abort)
    cl,         \* QSpec: [Clients -> [pc, node, priority, got]]
    nops,       \* QSpec: operations started so far
    hist,       \* QSpec: history of the critical sections, in lock order
    mutex,      \* LSpec: the thread holding q->lock, or NULL
    opt,        \* Spec: the options snapshot and the root arguments
    count,      \* Spec: the flagman's counter
    main,       \* Spec: main()'s position: [pc, i, node]
    wk,         \* Spec: [Workers -> [pc, msg, idx, node]]
    output,     \* Spec: [entry -> number of lines printed for it]
    stats,      \* Spec: flagman calls so far: [seed, enq, done]
    shared,     \* Spec: [refcnt cell -> [ptr, refcnt, alloc, frees]]: the shared_ptr referents
    body        \* Spec: [message -> [repo, gets, freed]]: the message_body objects

qvars == <<heap, head, tail, length, fault>>
clvars == <<cl, nops, hist, mutex>>
ffvars == <<opt, count, main, wk, output, stats, shared, body>>
vars == <<heap, head, tail, length, fault, cl, nops, hist, mutex,
          opt, count, main, wk, output, stats, shared, body>>

(***************************************************************************)
(* The heap.  free() leaves a cell's bytes in place; malloc returns any    *)
(* free cell.                                                              *)
(***************************************************************************)
FreeCell == [alloc |-> FALSE, priority |-> 0, msg |-> NULL, next |-> NULL]

FreeAddrs(h) == {a \in Addr : ~h[a].alloc}

\* Some pointer of the queue still holds address a.
Referenced(h, hd, tl, a) == hd = a \/ tl = a \/ \E b \in Addr : h[b].next = a

\* The addresses malloc may return: any free cell that a stale pointer still
\* designates, or a free cell nothing points to.  The latter are
\* interchangeable, so the lowest stands for all of them.
MallocAddrs(h, hd, tl) ==
    LET stale == {a \in FreeAddrs(h) : Referenced(h, hd, tl, a)}
        fresh == FreeAddrs(h) \ stale
    IN stale \cup (IF fresh = {} THEN {} ELSE {CHOOSE a \in fresh : \A b \in fresh : a <= b})

\* free(a): the bytes stay in place; they are kept in the model only while
\* some pointer can still reach them.
node_free(h, hd, tl, a) ==
    IF Referenced(h, hd, tl, a) THEN [h EXCEPT ![a].alloc = FALSE]
    ELSE [h EXCEPT ![a] = FreeCell]

\* node *new_node = malloc(...); new_node->priority = ...; ->msg = ...; ->next = NULL
node_new(h, a, priority, msg) ==
    [h EXCEPT ![a] = [alloc |-> TRUE, priority |-> priority, msg |-> msg,
                      next |-> NULL]]

\* The nodes reached from p by next pointers (at most fuel of them).
RECURSIVE ListFrom(_, _, _)
ListFrom(h, p, fuel) ==
    IF p = NULL \/ fuel = 0 THEN <<>>
    ELSE <<p>> \o ListFrom(h, h[p].next, fuel - 1)

List == ListFrom(heap, head, NAddr + 1)

\* The pointers p takes in queue_put's loop, the last one being the node the
\* new node is spliced after.
RECURSIVE PutWalk(_, _, _, _, _)
PutWalk(h, p, tl, priority, fuel) ==
    IF p # tl /\ h[p].priority > priority /\ h[p].next # NULL /\ fuel > 0
    THEN <<p>> \o PutWalk(h, h[p].next, tl, priority, fuel - 1)
    ELSE <<p>>

Last(s) == s[Len(s)]

\* queue_put's critical section.  ub: a freed node was dereferenced.
queue_put(h, hd, tl, n, priority) ==
    IF hd = NULL /\ tl = NULL
    THEN [heap |-> h, head |-> n, tail |-> n, ub |-> FALSE, segv |-> FALSE]
    ELSE LET path == PutWalk(h, hd, tl, priority, NAddr + 1)
             p == Last(path)
             next == h[p].next
         IN [heap |-> [h EXCEPT ![p].next = n, ![n].next = next],
             head |-> hd, tail |-> tl,
             ub |-> \E i \in 1..Len(path) : ~h[path[i]].alloc,
             segv |-> FALSE]

\* queue_put_head with the new node linked behind the head instead of before it.
queue_put_head_behind(h, hd, tl, n) ==
    IF hd = NULL /\ tl = NULL
    THEN [heap |-> h, head |-> n, tail |-> n, ub |-> FALSE, segv |-> FALSE]
    ELSE [heap |-> [h EXCEPT ![n].next = h[hd].next, ![hd].next = n],
          head |-> hd, tail |-> tl, ub |-> ~h[hd].alloc, segv |-> FALSE]

\* queue_put_head's critical section.
queue_put_head(h, hd, tl, n) ==
    IF hd = NULL /\ tl = NULL
    THEN [heap |-> h, head |-> n, tail |-> n, ub |-> FALSE, segv |-> FALSE]
    ELSE [heap |-> [h EXCEPT ![n].next = hd], head |-> n, tail |-> tl,
          ub |-> FALSE, segv |-> FALSE]

\* queue_put_tail's critical section.
queue_put_tail(h, hd, tl, n) ==
    IF hd = NULL /\ tl = NULL
    THEN [heap |-> h, head |-> n, tail |-> n, ub |-> FALSE, segv |-> FALSE]
    ELSE IF tl = NULL
    THEN [heap |-> h, head |-> hd, tail |-> tl, ub |-> FALSE, segv |-> TRUE]
    ELSE [heap |-> [h EXCEPT ![tl].next = n], head |-> hd, tail |-> n,
          ub |-> ~h[tl].alloc, segv |-> FALSE]

\* queue_get's critical section (after sem_wait).
queue_get(h, hd, tl) ==
    IF hd = NULL
    THEN [heap |-> h, head |-> hd, tail |-> tl, msg |-> NULL,
          ub |-> FALSE, segv |-> TRUE]
    ELSE LET more == h[hd].next # NULL
             newhead == IF more THEN h[hd].next ELSE NULL
             newtail == IF more THEN tl ELSE NULL
         IN [heap |-> node_free(h, newhead, newtail, hd),
             head |-> newhead,
             tail |-> newtail,
             msg |-> h[hd].msg,
             ub |-> ~h[hd].alloc, segv |-> FALSE]

\* What a critical section with result r can leave behind: a NULL dereference
\* kills the process; a use of freed memory either goes unnoticed (the bytes
\* are still there) or kills the process.
Crashes(r) == IF r.segv THEN {TRUE} ELSE IF r.ub THEN {TRUE, FALSE} ELSE {FALSE}

Commit(r, crash) ==
    IF crash
    THEN /\ fault' = TRUE
         /\ UNCHANGED <<heap, head, tail>>
    ELSE /\ heap' = r.heap
         /\ head' = r.head
         /\ tail' = r.tail
         /\ fault' = FALSE

(***************************************************************************)
(* The directory tree the program runs on, the options and the roots.      *)
(*                                                                         *)
(*   .        a/  b/                                                       *)
(*   ./a      f   s/                                                       *)
(*   ./b      .h  x~                                                       *)
(*   ./a/s    g   o  t/  v/                                                *)
(*   ./a/s/t  k                                                            *)
(*   ./a/s/v  z                                                            *)
(*                                                                         *)
(* ./a and ./a/s are git repositories (the ignore scopes); opendir may     *)
(* fail on ./a/s/v.                                                        *)
(*                                                                         *)
(* An entry carries what readdir and the matchers answer for it: its       *)
(* d_type, whether its name is hidden (a leading '.' or a trailing '~'),   *)
(* whether the ignore scope in force says it is ignored, and whether its   *)
(* basename matches the pattern.                                           *)
(***************************************************************************)
\* number of worker threads (opt.nthreads) at most
NThreads == 2
\* largest --depth the model runs with
MaxDepthOpt == 2

Workers == 1..NThreads

Ent(name, type, dir, hidden, ignored, match) ==
    [name |-> name, type |-> type, dir |-> dir, hidden |-> hidden,
     ignored |-> ignored, match |-> match]

DirEntries ==
    << \* 1: "."
       << Ent("a", "DIR", 2, FALSE, FALSE, TRUE),
          Ent("b", "DIR", 3, FALSE, FALSE, FALSE) >>,
       \* 2: "a"
       << Ent("f", "REG", 0, FALSE, FALSE, TRUE),
          Ent("s", "DIR", 4, FALSE, FALSE, TRUE) >>,
       \* 3: "b"
       << Ent(".h", "REG", 0, TRUE, FALSE, TRUE),
          Ent("x~", "REG", 0, TRUE, FALSE, TRUE) >>,
       \* 4: "a/s"
       << Ent("g", "REG", 0, FALSE, FALSE, FALSE),
          Ent("o", "REG", 0, FALSE, TRUE, TRUE),
          Ent("t", "DIR", 5, FALSE, FALSE, TRUE),
          Ent("v", "DIR", 6, FALSE, FALSE, FALSE) >>,
       \* 5: "a/s/t"
       << Ent("k", "REG", 0, FALSE, FALSE, TRUE) >>,
       \* 6: "a/s/v"
       << Ent("z", "REG", 0, FALSE, FALSE, TRUE) >>
    >>

Dirs == 1..Len(DirEntries)
EntryIds == {de \in Dirs \X (1..4) : de[2] <= Len(DirEntries[de[1]])}

\* The root arguments of a run, as directories; <<>> is a command line with
\* no path, for which main walks ".".
RootLists == {<<>>, <<2>>, <<2, 3>>, <<3, 2>>, <<3, 3>>}

\* The directories that hold a git repository, and the directory holding d
\* (NULL above ".").
ScopeRoots == {2, 4}

ParentDir(d) ==
    IF \E p \in Dirs : \E i \in 1..Len(DirEntries[p]) : DirEntries[p][i].dir = d
    THEN CHOOSE p \in Dirs : \E i \in 1..Len(DirEntries[p]) : DirEntries[p][i].dir = d
    ELSE NULL

\* git_repository_open(&ptr, path), line 176: the repository at path itself,
\* or failure, which leaves ptr NULL.
git_repository_open(d) == IF d \in ScopeRoots THEN d ELSE NULL

\* git_repository_open_ext(&ptr, path, 0, NULL), lines 304 and 314: the
\* repository at path or at the nearest directory above it, else ptr stays NULL.
RECURSIVE git_repository_open_ext(_)
git_repository_open_ext(d) ==
    IF d = NULL THEN NULL
    ELSE IF d \in ScopeRoots THEN d
    ELSE git_repository_open_ext(ParentDir(d))

\* The directories opendir can fail on.
Unreadable == {6}

\* get_nprocs(), line 264: the processors of the machine the run is on.
get_nprocs == 4

\* main's defaults, lines 263-270, before parse_options.
NoOptions ==
    [nthreads |-> get_nprocs, max_depth |-> -1, skip_hidden |-> TRUE, no_ignore |-> FALSE,
     pattern |-> FALSE, only_type |-> "UNKNOWN", roots |-> <<>>, denied |-> {}]

\* main's defaults (lines 263-270) as changed by parse_options, with the
\* directories opendir fails on in this run.
Options ==
    {[nthreads |-> n, max_depth |-> d, skip_hidden |-> f[1], no_ignore |-> f[2],
      pattern |-> f[3], only_type |-> f[4], roots |-> r, denied |-> x] :
        n \in 1..NThreads, d \in {-1, MaxDepthOpt}, r \in RootLists,
        f \in {<<TRUE, FALSE, FALSE, "UNKNOWN">>,
               <<FALSE, TRUE, TRUE, "REG">>},
        x \in SUBSET Unreadable}

\* The roots main seeds: "." when no path is given (lines 301-320).
Roots == IF opt.roots = <<>> THEN <<1>> ELSE opt.roots

(***************************************************************************)
(* Messages.  A message is the pointer message_new returns; the model      *)
(* names it by what message_body_new stored in it (the root argument it    *)
(* descends from, its depth and its directory).  NULL is the terminator.   *)
(***************************************************************************)
DirBase == 10
DepthBase == 10

message_body_new(root, depth, dir) == (root * DepthBase + depth) * DirBase + dir

DirOf(msg) == msg % DirBase
DepthOf(msg) == (msg \div DirBase) % DepthBase
RootOf(msg) == (msg \div DirBase) \div DepthBase

NotStarted == [pc |-> "none", msg |-> NULL, idx |-> 0, node |-> NULL]

(***************************************************************************)
(* shared_ptr, lines 30-59.  A refcnt cell is named by the message it was  *)
(* made for.  body[msg].repo is the cell the message_body's handle counts  *)
(* in; shared[c].ptr is the git_repository the handles of c designate      *)
(* (NULL: none), shared[c].frees counts the git_repository_free calls.     *)
(***************************************************************************)
\* make_shared(repo), lines 36-45
make_shared(sh, c, repo) ==
    (c :> [ptr |-> repo, refcnt |-> 1, alloc |-> TRUE, frees |-> 0]) @@ sh

\* free_shared(s), lines 47-54: the atomic decrement, and the free when it
\* gave zero.
free_shared(sh, c) ==
    LET n == sh[c].refcnt - 1
    IN IF n = 0
       THEN [sh EXCEPT ![c].refcnt = n, ![c].alloc = FALSE, ![c].frees = @ + 1]
       ELSE [sh EXCEPT ![c].refcnt = n]

\* make_shared_copy without the increment.
make_shared_copy_uncounted(sh, c) == sh

\* make_shared_copy(s), lines 56-59: the atomic increment
make_shared_copy(sh, c) == [sh EXCEPT ![c].refcnt = @ + 1]

\* message_body_free(ptr), lines 78-83
message_body_free(sh, b) == free_shared(sh, b.repo)

\* A message_body as message_body_new leaves it (lines 68-76), with the
\* bookkeeping of the model: how often queue_get returned it and how often
\* it was freed.
NewBody(c) == [repo |-> c, gets |-> 0, freed |-> 0]

\* The handle of message msg: the repository it designates.
RepoPtr(msg) == shared[body[msg].repo].ptr

\* A use of freed memory goes unnoticed or kills the process.
Outcomes(ub) == IF ub THEN {TRUE, FALSE} ELSE {FALSE}

(***************************************************************************)
(* QSpec: client threads driving the queue.  A call is three steps, as in  *)
(* the code: the malloc of the node, the critical section under q->lock,   *)
(* and the sem_post after the lock is dropped; queue_get is the sem_wait   *)
(* and then the critical section.                                          *)
(***************************************************************************)
Idle == [pc |-> "idle", node |-> NULL, priority |-> 0, got |-> NULL]

QInit ==
    /\ heap = [a \in Addr |-> FreeCell]
    /\ head = NULL
    /\ tail = NULL
    /\ length = 0
    /\ fault = FALSE
    /\ cl = [c \in Clients |-> Idle]
    /\ nops = 0
    /\ hist = <<>>
    /\ mutex = NULL
    /\ opt = NoOptions
    /\ count = 0
    /\ main = [pc |-> "none", i |-> 0, node |-> NULL]
    /\ wk = [w \in Workers |-> NotStarted]
    /\ output = [e \in EntryIds |-> 0]
    /\ stats = [seed |-> 0, enq |-> 0, done |-> 0]
    /\ shared = <<>>
    /\ body = <<>>

\* queue_put(q, msg, priority), lines 78-81
CallPut(c) ==
    /\ ~fault /\ cl[c].pc = "idle" /\ nops < MaxOps
    /\ \E a \in MallocAddrs(heap, head, tail), priority \in 0..MaxPrio :
        /\ heap' = node_new(heap, a, priority, nops + 1)
        /\ cl' = [cl EXCEPT ![c] = [pc |-> "put", node |-> a,
                                    priority |-> priority, got |-> NULL]]
    /\ nops' = nops + 1
    /\ UNCHANGED <<head, tail, length, fault, hist>>

\* queue_put, lines 83-104
PutLocked(c) ==
    /\ ~fault /\ cl[c].pc = "put"
    /\ LET r == queue_put(heap, head, tail, cl[c].node, cl[c].priority)
       IN \E crash \in Crashes(r) :
            /\ Commit(r, crash)
            /\ hist' = Append(hist, [op |-> "put", msg |-> heap[cl[c].node].msg,
                                     priority |-> cl[c].priority])
    /\ cl' = [cl EXCEPT ![c].pc = "post"]
    /\ UNCHANGED <<length, nops>>

\* queue_put_head(q, msg), lines 110-113
CallPutHead(c) ==
    /\ ~fault /\ cl[c].pc = "idle" /\ nops < MaxOps
    /\ \E a \in MallocAddrs(heap, head, tail) :
        /\ heap' = node_new(heap, a, QUEUE_PRIORITY_MAX, nops + 1)
        /\ cl' = [cl EXCEPT ![c] = [pc |-> "put_head", node |-> a,
                                    priority |-> QUEUE_PRIORITY_MAX, got |-> NULL]]
    /\ nops' = nops + 1
    /\ UNCHANGED <<head, tail, length, fault, hist>>

\* queue_put_head, lines 115-125
PutHeadLocked(c) ==
    /\ ~fault /\ cl[c].pc = "put_head"
    /\ LET r == queue_put_head(heap, head, tail, cl[c].node)
       IN \E crash \in Crashes(r) :
            /\ Commit(r, crash)
            /\ hist' = Append(hist, [op |-> "put_head", msg |-> heap[cl[c].node].msg,
                                     priority |-> QUEUE_PRIORITY_MAX])
    /\ cl' = [cl EXCEPT ![c].pc = "post"]
    /\ UNCHANGED <<length, nops>>

\* queue_put_tail(q, msg), lines 131-134
CallPutTail(c) ==
    /\ ~fault /\ cl[c].pc = "idle" /\ nops < MaxOps
    /\ \E a \in MallocAddrs(heap, head, tail) :
        /\ heap' = node_new(heap, a, QUEUE_PRIORITY_MIN, nops + 1)
        /\ cl' = [cl EXCEPT ![c] = [pc |-> "put_tail", node |-> a,
                                    priority |-> QUEUE_PRIORITY_MIN, got |-> NULL]]
    /\ nops' = nops + 1
    /\ UNCHANGED <<head, tail, length, fault, hist>>

\* queue_put_tail, lines 136-146
PutTailLocked(c) ==
    /\ ~fault /\ cl[c].pc = "put_tail"
    /\ LET r == queue_put_tail(heap, head, tail, cl[c].node)
       IN \E crash \in Crashes(r) :
            /\ Commit(r, crash)
            /\ hist' = Append(hist, [op |-> "put_tail", msg |-> heap[cl[c].node].msg,
                                     priority |-> QUEUE_PRIORITY_MIN])
    /\ cl' = [cl EXCEPT ![c].pc = "post"]
    /\ UNCHANGED <<length, nops>>

\* sem_post(&q->length), lines 106, 127, 148
Post(c) ==
    /\ ~fault /\ cl[c].pc = "post"
    /\ length' = length + 1
    /\ cl' = [cl EXCEPT ![c] = Idle]
    /\ UNCHANGED <<heap, head, tail, fault, nops, hist>>

\* queue_get: sem_wait(&q->length), line 153
CallGet(c) ==
    /\ ~fault /\ cl[c].pc = "idle" /\ nops < MaxOps
    /\ length > 0
    /\ length' = length - 1
    /\ cl' = [cl EXCEPT ![c] = [pc |-> "get", node |-> NULL, priority |-> 0,
                                got |-> NULL]]
    /\ nops' = nops + 1
    /\ UNCHANGED <<heap, head, tail, fault, hist>>

\* queue_get, lines 155-171
GetLocked(c) ==
    /\ ~fault /\ cl[c].pc = "get"
    /\ LET r == queue_get(heap, head, tail)
       IN \E crash \in Crashes(r) :
            /\ Commit(r, crash)
            /\ cl' = [cl EXCEPT ![c] = [pc |-> "idle", node |-> NULL, priority |-> 0,
                                        got |-> IF crash THEN NULL ELSE r.msg]]
            /\ hist' = Append(hist, [op |-> IF crash THEN "crash" ELSE "get",
                                     msg |-> r.msg,
                                     priority |-> IF head = NULL THEN 0
                                                  ELSE heap[head].priority])
    /\ UNCHANGED <<length, nops>>

QNext ==
    /\ \E c \in Clients :
        \/ CallPut(c) \/ PutLocked(c)
        \/ CallPutHead(c) \/ PutHeadLocked(c)
        \/ CallPutTail(c) \/ PutTailLocked(c)
        \/ Post(c)
        \/ CallGet(c) \/ GetLocked(c)
    /\ UNCHANGED <<ffvars, mutex>>

QSpec == QInit /\ [][QNext]_vars

TypeOK ==
    /\ head \in Addr \cup {NULL}
    /\ tail \in Addr \cup {NULL}
    /\ length \in Nat
    /\ fault \in BOOLEAN

(***************************************************************************)
(* LSpec: the queue's calls one synchronisation step at a time.  macros.h  *)
(* is not among the sources; with_pthread_mutex(&q->lock) { ... } locks    *)
(* the mutex on entry to its block and unlocks it on exit (spec 4.2, 5).   *)
(***************************************************************************)
\* queue_put, queue_put_head, queue_put_tail (lines 77-149): the steps of a
\* put in program order.
queue_put_steps == <<"malloc", "lock", "link", "unlock", "sem_post">>

\* queue_get taking the mutex before it waits on the gate.
queue_get_steps_locked == <<"lock", "sem_wait", "unlink", "unlock">>

\* queue_get (lines 151-172): its steps in program order.
queue_get_steps == <<"sem_wait", "lock", "unlink", "unlock">>

Steps(op) == IF op = "get" THEN queue_get_steps ELSE queue_put_steps

\* The step client c is about to take ("none" between calls).
Step(c) == IF cl[c].op = "idle" THEN "none" ELSE Steps(cl[c].op)[cl[c].k]

LIdle == [op |-> "idle", k |-> 0, node |-> NULL, priority |-> 0, msg |-> NULL]

\* Client c after its current step: at the next one, or back between calls.
Advance(c) ==
    IF cl[c].k < Len(Steps(cl[c].op)) THEN [cl[c] EXCEPT !.k = @ + 1] ELSE LIdle

LInit ==
    /\ heap = [a \in Addr |-> FreeCell]
    /\ head = NULL
    /\ tail = NULL
    /\ length = 0
    /\ fault = FALSE
    /\ cl = [c \in Clients |-> LIdle]
    /\ nops = 0
    /\ hist = <<>>
    /\ mutex = NULL
    /\ opt = NoOptions
    /\ count = 0
    /\ main = [pc |-> "none", i |-> 0, node |-> NULL]
    /\ wk = [w \in Workers |-> NotStarted]
    /\ output = [e \in EntryIds |-> 0]
    /\ stats = [seed |-> 0, enq |-> 0, done |-> 0]
    /\ shared = <<>>
    /\ body = <<>>

\* A thread calls one of the four operations.
LCall(c) ==
    /\ ~fault /\ cl[c].op = "idle" /\ nops < MaxCalls
    /\ \E op \in {"put", "put_head", "put_tail", "get"} :
        \E priority \in (IF op = "put" THEN 0..MaxPrio
                          ELSE IF op = "put_head" THEN {QUEUE_PRIORITY_MAX}
                          ELSE {QUEUE_PRIORITY_MIN}) :
            cl' = [cl EXCEPT ![c] = [op |-> op, k |-> 1, node |-> NULL,
                                     priority |-> priority,
                                     msg |-> IF op = "get" THEN NULL ELSE nops + 1]]
    /\ nops' = nops + 1
    /\ UNCHANGED <<qvars, mutex>>

\* lines 78-81, 110-113, 131-134: the new node
LMalloc(c) ==
    /\ ~fault /\ Step(c) = "malloc"
    /\ \E a \in MallocAddrs(heap, head, tail) :
        /\ heap' = node_new(heap, a, cl[c].priority, cl[c].msg)
        /\ cl' = [cl EXCEPT ![c] = [Advance(c) EXCEPT !.node = a]]
    /\ UNCHANGED <<head, tail, length, fault, nops, mutex>>

\* sem_wait(&q->length), line 153: blocks while the gate is zero
LSemWait(c) ==
    /\ ~fault /\ Step(c) = "sem_wait"
    /\ length > 0
    /\ length' = length - 1
    /\ cl' = [cl EXCEPT ![c] = Advance(c)]
    /\ UNCHANGED <<heap, head, tail, fault, nops, mutex>>

\* with_pthread_mutex, lines 83, 115, 136, 155: blocks while the mutex is held
LLock(c) ==
    /\ ~fault /\ Step(c) = "lock"
    /\ mutex = NULL
    /\ mutex' = c
    /\ cl' = [cl EXCEPT ![c] = Advance(c)]
    /\ UNCHANGED <<qvars, nops>>

\* lines 84-103, 116-124, 137-145: the body of a put's critical section
LLink(c) ==
    /\ ~fault /\ Step(c) = "link"
    /\ LET r == IF cl[c].op = "put"
                THEN queue_put(heap, head, tail, cl[c].node, cl[c].priority)
                ELSE IF cl[c].op = "put_head"
                THEN queue_put_head(heap, head, tail, cl[c].node)
                ELSE queue_put_tail(heap, head, tail, cl[c].node)
       IN \E crash \in Crashes(r) : Commit(r, crash)
    /\ cl' = [cl EXCEPT ![c] = Advance(c)]
    /\ UNCHANGED <<length, nops, mutex>>

\* lines 156-170: the body of queue_get's critical section
LUnlink(c) ==
    /\ ~fault /\ Step(c) = "unlink"
    /\ LET r == queue_get(heap, head, tail)
       IN \E crash \in Crashes(r) : Commit(r, crash)
    /\ cl' = [cl EXCEPT ![c] = Advance(c)]
    /\ UNCHANGED <<length, nops, mutex>>

\* the end of the with_pthread_mutex block, lines 104, 125, 146, 171
LUnlock(c) ==
    /\ ~fault /\ Step(c) = "unlock"
    /\ mutex' = NULL
    /\ cl' = [cl EXCEPT ![c] = Advance(c)]
    /\ UNCHANGED <<qvars, nops>>

\* sem_post(&q->length), lines 106, 127, 148
LSemPost(c) ==
    /\ ~fault /\ Step(c) = "sem_post"
    /\ length' = length + 1
    /\ cl' = [cl EXCEPT ![c] = Advance(c)]
    /\ UNCHANGED <<heap, head, tail, fault, nops, mutex>>

LNext ==
    /\ \E c \in Clients :
        \/ LCall(c) \/ LMalloc(c) \/ LSemWait(c) \/ LLock(c)
        \/ LLink(c) \/ LUnlink(c) \/ LUnlock(c) \/ LSemPost(c)
    /\ UNCHANGED <<ffvars, hist>>

LSpec == LInit /\ [][LNext]_vars

(***************************************************************************)
(* Spec: the program.  flagman.h is not among the sources; the flagman is  *)
(* the counter of the spec (4.3): acquire increments, release decrements,  *)
(* wait blocks until the counter is zero.                                  *)
(***************************************************************************)
flagman_acquire(c) == c + 1
flagman_release(c) == c - 1
flagman_wait(c) == c = 0

Init ==
    /\ heap = [a \in Addr |-> FreeCell]
    /\ head = NULL
    /\ tail = NULL
    /\ length = 0
    /\ fault = FALSE
    /\ cl = [c \in Clients |-> Idle]
    /\ nops = 0
    /\ hist = <<>>
    /\ mutex = NULL
    /\ opt \in Options
    /\ count = 0
    /\ main = [pc |-> "acquire", i |-> 0, node |-> NULL]
    /\ wk = [w \in Workers |-> NotStarted]
    /\ output = [e \in EntryIds |-> 0]
    /\ stats = [seed |-> 0, enq |-> 0, done |-> 0]
    /\ shared = <<>>
    /\ body = <<>>

Running(w) == w <= opt.nthreads

\* main, lines 290-292: flagman_new, flagman_acquire
MainAcquire ==
    /\ ~fault /\ main.pc = "acquire"
    /\ count' = flagman_acquire(count)
    /\ stats' = [stats EXCEPT !.seed = @ + 1]
    /\ main' = [main EXCEPT !.pc = "spawn"]
    /\ UNCHANGED <<qvars, clvars, opt, wk, output, shared, body>>

\* main, lines 295-298: pthread_create of opt.nthreads workers.  A worker
\* first touches shared state in queue_get.
MainSpawn ==
    /\ ~fault /\ main.pc = "spawn"
    /\ wk' = [w \in Workers |->
                IF Running(w) THEN [wk[w] EXCEPT !.pc = "get_wait"] ELSE wk[w]]
    /\ main' = [main EXCEPT !.pc = "root_new", !.i = 1]
    /\ UNCHANGED <<qvars, clvars, opt, count, output, stats, shared, body>>

\* main, lines 301-307 and 311-318, and queue_put_head, lines 110-113: the
\* handle of root i, its message and its node.
MainRootNew ==
    /\ ~fault /\ main.pc = "root_new"
    /\ LET msg == message_body_new(main.i, 0, Roots[main.i])
           repo == make_shared(shared, msg, NULL)
       IN /\ shared' = IF ~opt.no_ignore
                        THEN [repo EXCEPT ![msg].ptr = git_repository_open_ext(Roots[main.i])]
                        ELSE repo
          /\ body' = (msg :> NewBody(msg)) @@ body
          /\ \E a \in MallocAddrs(heap, head, tail) :
                /\ heap' = node_new(heap, a, QUEUE_PRIORITY_MAX, msg)
                /\ main' = [main EXCEPT !.pc = "root_put", !.node = a]
    /\ UNCHANGED <<head, tail, length, fault, clvars, opt, count, wk, output, stats>>

\* queue_put_head, lines 115-125
MainRootPut ==
    /\ ~fault /\ main.pc = "root_put"
    /\ LET r == queue_put_head(heap, head, tail, main.node)
       IN \E crash \in Crashes(r) : Commit(r, crash)
    /\ main' = [main EXCEPT !.pc = "root_post"]
    /\ UNCHANGED <<length, clvars, opt, count, wk, output, stats, shared, body>>

\* queue_put_head, line 127, and the loop of lines 311-320
MainRootPost ==
    /\ ~fault /\ main.pc = "root_post"
    /\ length' = length + 1
    /\ main' = IF main.i < Len(Roots)
               THEN [pc |-> "root_new", i |-> main.i + 1, node |-> NULL]
               ELSE [pc |-> "wait", i |-> 0, node |-> NULL]
    /\ UNCHANGED <<heap, head, tail, fault, clvars, opt, count, wk, output, stats, shared, body>>

\* main, line 323: flagman_wait
MainWait ==
    /\ ~fault /\ main.pc = "wait"
    /\ flagman_wait(count)
    /\ main' = [main EXCEPT !.pc = "term_new", !.i = 1]
    /\ UNCHANGED <<qvars, clvars, opt, count, wk, output, stats, shared, body>>

\* main, line 325, and queue_put_tail, lines 131-134
MainTermNew ==
    /\ ~fault /\ main.pc = "term_new"
    /\ \E a \in MallocAddrs(heap, head, tail) :
        /\ heap' = node_new(heap, a, QUEUE_PRIORITY_MIN, NULL)
        /\ main' = [main EXCEPT !.pc = "term_put", !.node = a]
    /\ UNCHANGED <<head, tail, length, fault, clvars, opt, count, wk, output, stats, shared, body>>

\* queue_put_tail, lines 136-146
MainTermPut ==
    /\ ~fault /\ main.pc = "term_put"
    /\ LET r == queue_put_tail(heap, head, tail, main.node)
       IN \E crash \in Crashes(r) : Commit(r, crash)
    /\ main' = [main EXCEPT !.pc = "term_post"]
    /\ UNCHANGED <<length, clvars, opt, count, wk, output, stats, shared, body>>

\* queue_put_tail, line 148, and the loop of lines 324-326
MainTermPost ==
    /\ ~fault /\ main.pc = "term_post"
    /\ length' = length + 1
    /\ main' = IF main.i < opt.nthreads
               THEN [pc |-> "term_new", i |-> main.i + 1, node |-> NULL]
               ELSE [pc |-> "join", i |-> 0, node |-> NULL]
    /\ UNCHANGED <<heap, head, tail, fault, clvars, opt, count, wk, output, stats, shared, body>>

\* main, lines 328-343: pthread_join of every worker, cleanup, return 0
MainJoin ==
    /\ ~fault /\ main.pc = "join"
    /\ \A w \in Workers : Running(w) => wk[w].pc = "exit"
    /\ main' = [main EXCEPT !.pc = "done"]
    /\ UNCHANGED <<qvars, clvars, opt, count, wk, output, stats, shared, body>>

\* worker, line 228: queue_get's sem_wait, line 153
WorkerGetWait(w) ==
    /\ ~fault /\ wk[w].pc = "get_wait"
    /\ length > 0
    /\ length' = length - 1
    /\ wk' = [wk EXCEPT ![w].pc = "get_lock"]
    /\ UNCHANGED <<heap, head, tail, fault, clvars, opt, count, main, output, stats, shared, body>>

\* worker, lines 228-234: queue_get's critical section, lines 155-171; a
\* NULL message ends the loop (lines 244-256), any other is dissected: its
\* body is read, which is a use of freed memory if queue_get returns a
\* message a second time.
WorkerGetLocked(w) ==
    /\ ~fault /\ wk[w].pc = "get_lock"
    /\ LET r == queue_get(heap, head, tail)
           stale == r.msg # NULL /\ body[r.msg].freed > 0
       IN \E crash \in (IF r.segv THEN {TRUE} ELSE Outcomes(r.ub \/ stale)) :
            /\ Commit(r, crash)
            /\ wk' = [wk EXCEPT ![w] =
                        IF crash THEN wk[w]
                        ELSE IF r.msg = NULL
                        THEN [pc |-> "exit", msg |-> NULL, idx |-> 0, node |-> NULL]
                        ELSE [pc |-> "walk", msg |-> r.msg, idx |-> 1, node |-> NULL]]
            /\ body' = IF crash \/ r.msg = NULL THEN body
                       ELSE [body EXCEPT ![r.msg].gets = @ + 1]
    /\ UNCHANGED <<length, clvars, opt, count, main, output, stats, shared>>

\* walk, lines 103-109, stopping only when the depth is beyond the limit.
WalkEntries_beyond(msg) ==
    IF opt.max_depth > 0 /\ DepthOf(msg) > opt.max_depth THEN <<>>
    ELSE IF DirOf(msg) \in opt.denied THEN <<>>
    ELSE DirEntries[DirOf(msg)]

\* walk, lines 103-109: the entries readdir yields for the message's
\* directory, none when the depth limit stops the walk or opendir fails.
WalkEntries(msg) ==
    IF opt.max_depth > 0 /\ DepthOf(msg) >= opt.max_depth THEN <<>>
    ELSE IF DirOf(msg) \in opt.denied THEN <<>>
    ELSE DirEntries[DirOf(msg)]

\* walk, lines 118-132: the entry is skipped as hidden, or as ignored by the
\* repository ptr of the handle.
Skipped(e, ptr) ==
    \/ opt.skip_hidden /\ e.hidden
    \/ ~opt.no_ignore /\ ptr # NULL /\ e.ignored

\* walk, lines 143-164: the entry is printed.
Printed(e) ==
    /\ ~opt.pattern \/ e.match
    /\ opt.only_type = "UNKNOWN" \/ opt.only_type = e.type

\* walk, lines 109-170 and 191: one turn of the loop over the entries, up to
\* the flagman_acquire for a directory; past the last entry walk returns.
WorkerWalk(w) ==
    /\ ~fault /\ wk[w].pc = "walk"
    /\ LET d == DirOf(wk[w].msg)
           es == WalkEntries(wk[w].msg)
           i == wk[w].idx
       IN IF i > Len(es)
          THEN /\ wk' = [wk EXCEPT ![w].pc = "release"]
               /\ UNCHANGED <<output, count, stats>>
          ELSE IF Skipped(es[i], RepoPtr(wk[w].msg))
          THEN /\ wk' = [wk EXCEPT ![w].idx = i + 1]
               /\ UNCHANGED <<output, count, stats>>
          ELSE /\ output' = IF Printed(es[i])
                            THEN [output EXCEPT ![<<d, i>>] = @ + 1]
                            ELSE output
               /\ IF es[i].type = "DIR"
                  THEN /\ count' = flagman_acquire(count)
                       /\ stats' = [stats EXCEPT !.enq = @ + 1]
                       /\ wk' = [wk EXCEPT ![w].pc = "new"]
                  ELSE /\ wk' = [wk EXCEPT ![w].idx = i + 1]
                       /\ UNCHANGED <<count, stats>>
    /\ UNCHANGED <<qvars, clvars, opt, main, shared, body>>

\* The child keeping its own handle, of no repository, when the open fails.
ChildRepo_own(sh, new, repo, dir) ==
    LET currentrepo == make_shared(sh, new, NULL)
    IN IF opt.no_ignore
       THEN [shared |-> currentrepo, repo |-> new, ub |-> FALSE]
       ELSE [shared |-> [currentrepo EXCEPT ![new].ptr = git_repository_open(dir)],
             repo |-> new, ub |-> FALSE]

\* walk, lines 174-182: the handle of the child new: the repository opened
\* at the child if there is one, else a copy of the handle repo of the
\* message being walked, whose refcnt cell is freed memory if the message
\* was freed.
ChildRepo(sh, new, repo, dir) ==
    LET currentrepo == make_shared(sh, new, NULL)
    IN IF opt.no_ignore
       THEN [shared |-> currentrepo, repo |-> new, ub |-> FALSE]
       ELSE IF git_repository_open(dir) # NULL
       THEN [shared |-> [currentrepo EXCEPT ![new].ptr = git_repository_open(dir)],
             repo |-> new, ub |-> FALSE]
       ELSE [shared |-> make_shared_copy(free_shared(currentrepo, new), repo),
             repo |-> repo, ub |-> ~sh[repo].alloc]

\* walk, lines 174-188, and queue_put, lines 78-81: the child's handle, its
\* message at depth + 1 and its node, of priority depth + 1.
WorkerNew(w) ==
    /\ ~fault /\ wk[w].pc = "new"
    /\ LET msg == wk[w].msg
           e == WalkEntries(msg)[wk[w].idx]
           new == message_body_new(RootOf(msg), DepthOf(msg) + 1, e.dir)
           r == ChildRepo(shared, new, body[msg].repo, e.dir)
       IN \E crash \in Outcomes(r.ub) :
            /\ fault' = crash
            /\ IF crash
               THEN UNCHANGED <<heap, wk, shared, body>>
               ELSE /\ shared' = r.shared
                    /\ body' = (new :> NewBody(r.repo)) @@ body
                    /\ \E a \in MallocAddrs(heap, head, tail) :
                         /\ heap' = node_new(heap, a, DepthOf(msg) + 1, new)
                         /\ wk' = [wk EXCEPT ![w].pc = "put", ![w].node = a]
    /\ UNCHANGED <<head, tail, length, clvars, opt, count, main, output, stats>>

\* queue_put, lines 83-104
WorkerPut(w) ==
    /\ ~fault /\ wk[w].pc = "put"
    /\ LET r == queue_put(heap, head, tail, wk[w].node, DepthOf(wk[w].msg) + 1)
       IN \E crash \in Crashes(r) : Commit(r, crash)
    /\ wk' = [wk EXCEPT ![w].pc = "post"]
    /\ UNCHANGED <<length, clvars, opt, count, main, output, stats, shared, body>>

\* walk calling itself on the child directory instead of going on with the
\* entries of the directory it is in.
WorkerPost_descend(w) ==
    /\ ~fault /\ wk[w].pc = "post"
    /\ length' = length + 1
    /\ LET msg == wk[w].msg
           e == WalkEntries(msg)[wk[w].idx]
       IN wk' = [wk EXCEPT ![w].pc = "walk", ![w].idx = 1, ![w].node = NULL,
                           ![w].msg = message_body_new(RootOf(msg), DepthOf(msg) + 1, e.dir)]
    /\ UNCHANGED <<heap, head, tail, fault, clvars, opt, count, main, output, stats, shared, body>>

\* queue_put, line 106, and walk, line 191
WorkerPost(w) ==
    /\ ~fault /\ wk[w].pc = "post"
    /\ length' = length + 1
    /\ wk' = [wk EXCEPT ![w].pc = "walk", ![w].idx = @ + 1, ![w].node = NULL]
    /\ UNCHANGED <<heap, head, tail, fault, clvars, opt, count, main, output, stats, shared, body>>

\* worker, lines 240-241: flagman_release, which lets main out of
\* flagman_wait when it brings the counter to zero; the message is still
\* held.
WorkerRelease(w) ==
    /\ ~fault /\ wk[w].pc = "release"
    /\ count' = flagman_release(count)
    /\ stats' = [stats EXCEPT !.done = @ + 1]
    /\ wk' = [wk EXCEPT ![w].pc = "free"]
    /\ UNCHANGED <<qvars, clvars, opt, main, output, shared, body>>

\* worker, line 242: the end of the turn of foreach_queue_get destroys the
\* message (message_free, lines 34-41, calling message_body_free) and goes
\* back to queue_get.  Freeing a body twice, or releasing a handle whose
\* refcnt cell is freed, is a use of freed memory.
WorkerFree(w) ==
    /\ ~fault /\ wk[w].pc = "free"
    /\ LET msg == wk[w].msg
       IN \E crash \in Outcomes(body[msg].freed > 0 \/ ~shared[body[msg].repo].alloc) :
            /\ fault' = crash
            /\ IF crash
               THEN UNCHANGED <<wk, shared, body>>
               ELSE /\ shared' = message_body_free(shared, body[msg])
                    /\ body' = [body EXCEPT ![msg].freed = @ + 1]
                    /\ wk' = [wk EXCEPT ![w] = [pc |-> "get_wait", msg |-> NULL,
                                                idx |-> 0, node |-> NULL]]
    /\ UNCHANGED <<heap, head, tail, length, clvars, opt, count, main, output, stats>>

Next ==
    \/ MainAcquire \/ MainSpawn
    \/ MainRootNew \/ MainRootPut \/ MainRootPost
    \/ MainWait
    \/ MainTermNew \/ MainTermPut \/ MainTermPost
    \/ MainJoin
    \/ \E w \in Workers :
        \/ WorkerGetWait(w) \/ WorkerGetLocked(w)
        \/ WorkerWalk(w) \/ WorkerNew(w) \/ WorkerPut(w) \/ WorkerPost(w)
        \/ WorkerRelease(w) \/ WorkerFree(w)

Spec == Init /\ [][Next]_vars

\* malloc always has a free address to return: the heap of the model is
\* large enough for the run.
HeapSuffices ==
    (main.pc \in {"root_new", "term_new"} \/ \E w \in Workers : wk[w].pc = "new")
        => MallocAddrs(heap, head, tail) # {}

(***************************************************************************)
(* Claims about the queue, checked under QSpec.                            *)
(***************************************************************************)
Prio(a) == heap[a].priority

\* The place in hist of the critical section that linked message m (0: none).
LinkedAt(m) ==
    IF \E i \in 1..Len(hist) : hist[i].msg = m /\ hist[i].op \in {"put", "put_head", "put_tail"}
    THEN CHOOSE i \in 1..Len(hist) :
            hist[i].msg = m /\ hist[i].op \in {"put", "put_head", "put_tail"}
    ELSE 0

\* Clients between a put's critical section and its sem_post, and between a
\* get's sem_wait and its critical section.
Posting == {c \in Clients : cl[c].pc = "post"}
Getting == {c \in Clients : cl[c].pc = "get"}

\* C7: after any sequence of queue_put, queue_put_head, queue_put_tail and
\* queue_get the list from head onward is sorted in non-increasing priority,
\* so that queue_get returns an item whose priority is at least that of
\* every item still in the queue.
C7_SortedByPriority ==
    ~fault =>
        \A i, j \in 1..Len(List) : i < j => Prio(List[i]) >= Prio(List[j])

\* C8: of two items inserted with queue_put at the same priority the one
\* inserted earlier is returned first: the node queue_get returns next is
\* never one that queue_put linked later than an equal-priority node that
\* queue_put linked and that is still in the list.
C8_FifoAmongEqual ==
    (~fault /\ head # NULL /\ LinkedAt(heap[head].msg) # 0) =>
        LET first == LinkedAt(heap[head].msg)
        IN hist[first].op = "put" =>
            \A j \in 2..Len(List) :
                LET other == LinkedAt(heap[List[j]].msg)
                IN (other # 0 /\ hist[other].op = "put"
                    /\ Prio(List[j]) = Prio(head)) => first < other

\* C9: the value of the gate equals the number of nodes linked in the list,
\* counting a put that has linked its node and not yet posted, and a get that
\* has passed the gate and not yet unlinked, as in progress.
C9_GateCountsNodes ==
    ~fault => length + Cardinality(Getting) = Len(List) - Cardinality(Posting)

\* The message of the latest queue_put_head if no queue_get has run its
\* critical section since, else NULL.
RECURSIVE LastHeadPut(_)
LastHeadPut(hh) ==
    IF hh = <<>> THEN NULL
    ELSE LET e == hh[Len(hh)]
         IN IF e.op = "put_head" THEN e.msg
            ELSE IF e.op \in {"put", "put_tail"} THEN LastHeadPut(SubSeq(hh, 1, Len(hh) - 1))
            ELSE NULL

\* C10: queue_put_head prepends: when its critical section completes the new
\* node is the head, the nodes that were in the list follow it in their
\* order, and the next queue_get (no queue_put_head in between) returns its
\* message.
C10_PutHeadPrepends ==
    [][\A c \in Clients :
        /\ (cl[c].pc = "put_head" /\ cl'[c].pc = "post" /\ ~fault') =>
              /\ head' = cl[c].node
              /\ heap'[head'].msg = heap[cl[c].node].msg
              /\ SubSeq(ListFrom(heap', head', NAddr + 2), 2, Len(List) + 1) = List
        /\ (cl[c].pc = "get" /\ cl'[c].pc = "idle" /\ ~fault'
            /\ LastHeadPut(hist) # NULL) =>
              cl'[c].got = LastHeadPut(hist)
      ]_vars

\* C10's case: two items were in the queue, queue_put_head added a third and
\* the queue_get after it returned that third.
C10_Witness ==
    /\ Len(hist) = 4
    /\ hist[1].op = "put" /\ hist[2].op = "put"
    /\ hist[3].op = "put_head" /\ hist[4].op = "get"
    /\ hist[4].msg = hist[3].msg
    /\ Len(List) = 2
    /\ \E c \in Clients : cl[c].got = hist[3].msg

\* C11: queue_put_tail appends: when its critical section completes, the
\* nodes that were in the list are still in it, in their order, and the new
\* node follows the last of them, so that every item present is returned by
\* a later queue_get before the new one.
C11_PutTailAppends ==
    [][\A c \in Clients :
        (cl[c].pc = "put_tail" /\ cl'[c].pc = "post" /\ ~fault') =>
            ListFrom(heap', head', NAddr + 2) = Append(List, cl[c].node)
      ]_vars

\* C21: the list never holds fewer nodes than the gate admits: the nodes
\* reachable from head are at least the gate's value plus the queue_get calls
\* that have passed the gate, so such a call finds head non-null; every
\* message a put has linked and no queue_get has returned is still in the
\* list; and tail designates the last node of a list that is not empty.
C21_NoNodeLost ==
    ~fault =>
        LET puts == {i \in 1..Len(hist) : hist[i].op \in {"put", "put_head", "put_tail"}}
            gets == {i \in 1..Len(hist) : hist[i].op = "get"}
            inList == {heap[List[i]].msg : i \in 1..Len(List)}
        IN /\ Len(List) >= length + Cardinality(Getting)
           /\ (Getting # {} => head # NULL)
           /\ \A i \in puts :
                (\A j \in gets : hist[j].msg # hist[i].msg) => hist[i].msg \in inList
           /\ (head # NULL => tail = List[Len(List)])

(***************************************************************************)
(* Claims about the queue's synchronisation, checked under LSpec.          *)
(***************************************************************************)
\* C16: a thread holds q->lock only inside a critical section: it never
\* waits on the gate or signals it while holding the mutex, so the holder
\* of the mutex can always take its next step and no thread waiting on the
\* gate keeps a producer out.
C16_GateOutsideMutex ==
    \A c \in Clients :
        /\ mutex = c => Step(c) \in {"link", "unlink", "unlock"}
        /\ Step(c) \in {"sem_wait", "sem_post"} => mutex # c

\* C16's case: a consumer is blocked on the gate of the empty queue while a
\* producer holds the mutex and is about to link its node.
C16_Witness ==
    \E c, p \in Clients :
        /\ Step(c) = "sem_wait" /\ length = 0
        /\ Step(p) = "link" /\ mutex = p

(***************************************************************************)
(* Claims about the run, checked under Spec.                               *)
(***************************************************************************)
\* The WorkItems (non-terminator messages) linked in the queue.
QueuedItems == {i \in 1..Len(List) : heap[List[i]].msg # NULL}

\* Worker w is inside walk (lines 237-238).
Walking(w) == wk[w].pc \in {"walk", "new", "put", "post"}

\* Worker w has dequeued a terminator.
Exited(w) == wk[w].pc = "exit"

\* main is still seeding: some root is not yet in the queue (lines 300-320).
Seeding ==
    \/ main.pc \in {"root_new", "root_put"}
    \/ main.pc = "root_post" /\ main.i < Len(Roots)

\* The entries walk prints when it is run on directory d at depth k and on
\* every directory below it that it queues.
RECURSIVE Reach(_, _, _)
Reach(d, k, ptr) ==
    IF opt.max_depth > 0 /\ k >= opt.max_depth THEN {}
    ELSE IF d \in opt.denied THEN {}
    ELSE UNION {
        LET e == DirEntries[d][i]
            sub == IF ~opt.no_ignore /\ git_repository_open(e.dir) # NULL
                   THEN git_repository_open(e.dir) ELSE ptr
        IN IF Skipped(e, ptr) THEN {}
           ELSE (IF Printed(e) THEN {<<d, i>>} ELSE {})
                \cup (IF e.type = "DIR" THEN Reach(e.dir, k + 1, sub) ELSE {})
        : i \in 1..Len(DirEntries[d]) }

\* The repository of the handle main gives root directory d (lines 302-305).
RootPtr(d) == IF opt.no_ignore THEN NULL ELSE git_repository_open_ext(d)

\* How many lines the run owes for entry e: one for every root it is reached from.
Expected(e) ==
    Cardinality({r \in 1..Len(Roots) : e \in Reach(Roots[r], 0, RootPtr(Roots[r]))})

\* C1: once a worker's queue_get has returned a terminator, no WorkItem is
\* in the queue and no worker is walking one.
C1_NoTerminatorBeforeWorkEnds ==
    (\E w \in Workers : Exited(w)) =>
        (QueuedItems = {} /\ \A w \in Workers : ~Walking(w))

\* C2: when the run has ended, every entry reachable from a root within the
\* depth limit that passes the hidden, ignore, pattern and type filters has
\* been printed exactly once, and nothing else has.
C2_OutputComplete ==
    main.pc = "done" => \A e \in EntryIds : output[e] = Expected(e)

\* C3: the flagman counter is never negative and equals the seeding credits
\* plus the children enqueued minus the WorkItems completed, so that no
\* release comes without a matching acquire.
C3_FlagmanBalance ==
    /\ count >= 0
    /\ count = stats.seed + stats.enq - stats.done
    /\ stats.done <= stats.seed + stats.enq

\* C4: the flagman counter is zero only if the queue holds no WorkItem and no
\* worker is inside a walk (the direction of the equivalence that lets main
\* send the terminators).
C4_ZeroMeansQuiescent ==
    (main.pc # "acquire" /\ count = 0) =>
        (QueuedItems = {} /\ \A w \in Workers : ~Walking(w))

\* C5: while main has not yet enqueued every root the flagman counter cannot
\* reach zero, even if workers finish earlier roots meanwhile.
C5_SeedingCreditHeld ==
    Seeding => count > 0

\* C6: the run terminates: until main has joined the workers and returned,
\* the process has not crashed and some thread can take a step.
C6_Terminates ==
    main.pc = "done" \/ (~fault /\ ENABLED Next)

\* The handles of refcnt cell c that are live: those of the message bodies
\* not yet destroyed.
LiveHandles(c) == {m \in DOMAIN body : body[m].repo = c /\ body[m].freed = 0}

\* C12: the refcount of every referent equals the number of live handles to
\* it; the referent is freed once, on the step that takes the count from 1
\* to 0, and never while a handle is live; a worker inside walk holds a
\* handle whose referent is not freed.
C12_RefcountTracksHandles ==
    /\ [](/\ \A c \in DOMAIN shared :
              /\ shared[c].alloc =>
                    /\ shared[c].refcnt = Cardinality(LiveHandles(c))
                    /\ shared[c].frees = 0
              /\ ~shared[c].alloc =>
                    /\ LiveHandles(c) = {}
                    /\ shared[c].frees = 1
          /\ \A w \in Workers :
              Walking(w) => shared[body[wk[w].msg].repo].alloc)
    /\ [][\A c \in DOMAIN shared :
            shared'[c].frees # shared[c].frees =>
                /\ shared[c].refcnt = 1 /\ shared'[c].refcnt = 0
                /\ shared'[c].frees = shared[c].frees + 1
         ]_vars

\* C12's case: a repository was shared by three message bodies, made by
\* make_shared and two make_shared_copy, and freed when the last was.
C12_Witness ==
    \E c \in DOMAIN shared :
        /\ shared[c].ptr # NULL
        /\ Cardinality({m \in DOMAIN body : body[m].repo = c}) = 3
        /\ LiveHandles(c) = {}
        /\ shared[c].frees = 1

\* C13: when main has joined the workers, every repository opened during
\* the run, for a root or for a child directory, has been freed exactly
\* once: no message body still holds a handle to it.
C13_ScopesReleased ==
    main.pc = "done" =>
        \A c \in DOMAIN shared :
            shared[c].ptr # NULL => (shared[c].frees = 1 /\ LiveHandles(c) = {})

\* C14: no path is printed more than once in a run, and queue_get returns no
\* WorkItem more than once.
C14_NoPathTwice ==
    /\ \A e \in EntryIds : output[e] <= 1
    /\ \A m \in DOMAIN body : body[m].gets <= 1

\* The number of lines in all: the sum of f over the entries in S.
RECURSIVE Lines(_, _)
Lines(f, S) ==
    IF S = {} THEN 0
    ELSE LET e == CHOOSE x \in S : TRUE
         IN f[e] + Lines(f, S \ {e})

\* The lines of the run that takes the WorkItems one at a time, each root
\* whole: a function of the tree, the options and the roots alone.
Reference == [e \in EntryIds |-> Expected(e)]

\* C15: the set of lines a run has printed when it ends, and their number,
\* are those of the reference run, whatever the interleaving and the number
\* of workers.
C15_OutputDeterministic ==
    main.pc = "done" =>
        /\ {e \in EntryIds : output[e] > 0} = {e \in EntryIds : Reference[e] > 0}
        /\ Lines(output, EntryIds) = Lines(Reference, EntryIds)

\* The message of the directory holding the directory of message m, which
\* is the WorkItem whose walk made m.
ParentMsg(m) == message_body_new(RootOf(m), DepthOf(m) - 1, ParentDir(DirOf(m)))

\* Every entry that the walk of message p prints has been printed.
MatchesOut(p) ==
    \A i \in 1..Len(WalkEntries(p)) :
        LET e == WalkEntries(p)[i]
        IN (~Skipped(e, RepoPtr(p)) /\ Printed(e)) => output[<<DirOf(p), i>>] >= 1

\* C17: while a worker processes a child directory of D, either another
\* worker is still inside the walk of D or every match of D has been
\* printed: the worker that walks D processes none of D's children before
\* the walk of D has returned, having only queued them.
C17_MatchesBeforeChildren ==
    \A w \in Workers :
        (Walking(w) /\ DepthOf(wk[w].msg) > 0) =>
            \/ \E v \in Workers \ {w} : Walking(v) /\ wk[v].msg = ParentMsg(wk[w].msg)
            \/ MatchesOut(ParentMsg(wk[w].msg))

\* C17's case: the only worker of the run, having walked "." and printed
\* ./b after it queued ./a, is walking ./a.
C17_Witness ==
    /\ opt.nthreads = 1
    /\ Walking(1) /\ wk[1].msg = message_body_new(1, 1, 2)
    /\ output[<<1, 1>>] = 1 /\ output[<<1, 2>>] = 1

\* Directory d lies under directory r, and how many levels below it.
RECURSIVE Under(_, _)
Under(r, d) == d # NULL /\ (d = r \/ Under(r, ParentDir(d)))

RECURSIVE Levels(_, _)
Levels(r, d) == IF d = r THEN 0 ELSE 1 + Levels(r, ParentDir(d))

\* Worker w holds a WorkItem at or beyond the depth limit.
AtLimit(w) ==
    /\ wk[w].msg # NULL
    /\ opt.max_depth > 0 /\ DepthOf(wk[w].msg) >= opt.max_depth

\* C18: with a depth limit set, no WorkItem is deeper than the limit and the
\* depth of each is its level below its root; no entry lying more than
\* max_depth levels below every root is printed; the walk of a WorkItem at
\* the limit returns at once, printing nothing and queueing nothing, and the
\* worker releases the flagman once for it.
C18_DepthLimit ==
    /\ [](opt.max_depth > 0 =>
            /\ \A m \in DOMAIN body :
                  /\ DepthOf(m) <= opt.max_depth
                  /\ Under(Roots[RootOf(m)], DirOf(m))
                  /\ DepthOf(m) = Levels(Roots[RootOf(m)], DirOf(m))
            /\ \A e \in EntryIds :
                  output[e] > 0 =>
                      \E r \in 1..Len(Roots) :
                          /\ Under(Roots[r], e[1])
                          /\ Levels(Roots[r], e[1]) + 1 <= opt.max_depth)
    /\ [][opt.max_depth > 0 =>
            \A w \in Workers :
                (AtLimit(w) /\ wk'[w] # wk[w]) =>
                    \/ /\ wk[w].pc = "walk" /\ wk'[w].pc = "release"
                       /\ UNCHANGED <<output, count, heap, body, shared>>
                    \/ /\ wk[w].pc = "release" /\ wk'[w].pc = "free"
                       /\ count' = count - 1
                       /\ UNCHANGED <<output, heap, body, shared>>
                    \/ /\ wk[w].pc = "free" /\ wk'[w].pc = "get_wait"
                       /\ UNCHANGED <<output, count, heap>>
         ]_vars

\* C18's case: with --depth 2 and the root a, the WorkItem of a/s/t, at depth
\* 2, was completed and a/s/t/k was not printed.
C18_Witness ==
    /\ opt.max_depth = MaxDepthOpt /\ opt.roots = <<2>>
    /\ \E m \in DOMAIN body :
          DirOf(m) = 5 /\ DepthOf(m) = opt.max_depth /\ body[m].freed = 1
    /\ output[<<5, 1>>] = 0
    /\ main.pc = "done"

\* Worker w holds a WorkItem whose directory opendir fails on, at a depth
\* where walk does call opendir.
OpenFails(w) ==
    /\ wk[w].msg # NULL /\ DirOf(wk[w].msg) \in opt.denied
    /\ ~(opt.max_depth > 0 /\ DepthOf(wk[w].msg) >= opt.max_depth)

\* The walk of a WorkItem whose opendir fails returns at once, printing
\* nothing and queueing nothing, and the worker releases the flagman once.
FailedOpenIsSilent ==
    [][\A w \in Workers :
        (OpenFails(w) /\ wk'[w] # wk[w]) =>
            \/ /\ wk[w].pc = "walk" /\ wk'[w].pc = "release"
               /\ UNCHANGED <<output, count, heap, body, shared>>
            \/ /\ wk[w].pc = "release" /\ wk'[w].pc = "free"
               /\ count' = count - 1
               /\ UNCHANGED <<output, heap, body, shared>>
            \/ /\ wk[w].pc = "free" /\ wk'[w].pc = "get_wait"
               /\ UNCHANGED <<output, count, heap>>
      ]_vars

\* Some WorkItem whose opendir failed has been completed.
SomeOpenFailed ==
    \E m \in DOMAIN body :
        /\ DirOf(m) \in opt.denied /\ body[m].freed >= 1
        /\ ~(opt.max_depth > 0 /\ DepthOf(m) >= opt.max_depth)

\* C19: a failing opendir is silent (nothing printed, nothing queued, one
\* flagman release), and after it the run still goes on to its end, where
\* every other directory has been traversed.
C19_FailedOpenTolerated ==
    /\ FailedOpenIsSilent
    /\ [](SomeOpenFailed =>
            /\ main.pc = "done" \/ (~fault /\ ENABLED Next)
            /\ main.pc = "done" => \A e \in EntryIds : output[e] = Reference[e])

\* The messages that walk makes in this step.
Made == DOMAIN body' \ DOMAIN body

\* C20: with ignore checks enabled, the handle of a child WorkItem is a new
\* one on the repository opened at the child if there is one, and otherwise
\* a copy of the handle of the WorkItem being walked: same refcnt cell, its
\* count one higher, the same repository or none, while the cell made for
\* the failed open is freed.  Hence the repository of every WorkItem is the
\* one at its directory or nearest above it, and the handle of a WorkItem
\* not yet destroyed never designates a freed cell.
C20_ChildScope ==
    /\ [][~opt.no_ignore =>
            \A w \in Workers : \A m \in Made :
                wk[w].pc = "new" /\ wk'[w].pc = "put" =>
                    LET parent == body[wk[w].msg].repo
                    IN IF git_repository_open(DirOf(m)) # NULL
                       THEN /\ body'[m].repo = m
                            /\ shared'[m] = [ptr |-> DirOf(m), refcnt |-> 1,
                                             alloc |-> TRUE, frees |-> 0]
                            /\ shared'[parent] = shared[parent]
                       ELSE /\ body'[m].repo = parent
                            /\ shared[parent].alloc
                            /\ shared'[parent] =
                                  [shared[parent] EXCEPT !.refcnt = @ + 1]
                            /\ ~shared'[m].alloc /\ shared'[m].ptr = NULL
         ]_vars
    /\ [](~opt.no_ignore =>
            \A m \in DOMAIN body :
                /\ RepoPtr(m) = git_repository_open_ext(DirOf(m))
                /\ body[m].freed = 0 => shared[body[m].repo].alloc)

\* C20's case: in a run on "." with ignore checks, ./a/s got a handle of its
\* own on its repository, ./a/s/t a copy of it, and ./b a copy of the handle
\* of ".", which designates no repository.
C20_Witness ==
    /\ ~opt.no_ignore /\ opt.roots = <<>>
    /\ \E s \in DOMAIN body, t \in DOMAIN body, b \in DOMAIN body :
          /\ DirOf(s) = 4 /\ body[s].repo = s /\ RepoPtr(s) = 4
          /\ DirOf(t) = 5 /\ body[t].repo = s
          /\ DirOf(b) = 3 /\ body[b].repo = message_body_new(1, 0, 1)
          /\ RepoPtr(b) = NULL

====
